---- MODULE Spec2Model ----
(***************************************************************************)
(* A model of mkdocs_inspircd (src/mkdocs_inspircd/__init__.py): the       *)
(* lru-cached YAML loader, the lazy Jinja context, the module-YAML path    *)
(* predicate, the per-plugin module list and its five aggregate views, and *)
(* the Markdown hook that renders a page with the deferred aggregates.     *)
(*                                                                         *)
(* Python values are modelled as follows.  A dict is a function whose      *)
(* DOMAIN is the set of keys present; a list is a sequence; None is the    *)
(* record None; a raised exception is the name of its class.  A path is    *)
(* the sequence of its segments; fnmatch sees it as the sequence of its    *)
(* characters, the segments joined by "/".                                 *)
(***************************************************************************)
EXTENDS Integers, Sequences, FiniteSets, TLC

VARIABLES
    disk,       \* the documentation tree: path -> text of the file
    cache,      \* load_yaml's lru_cache, least recently used entry first
    reads,      \* path -> number of times the file was opened and read
    edits,      \* number of edits made to the tree so far
    recency,    \* paths in the order of their last load_yaml call (history)
    build,      \* number of the current build (one plugin instance each)
    _modules,   \* InspircdPlugin._modules of the current instance
    scans,      \* glob scans of the module directory by this instance
    aggReads,   \* path -> file reads made inside modules() by this instance
    globbed,    \* what the scan of this instance matched (history)
    dirty,      \* paths edited since this build began (history)
    aggRefd,    \* whether a page of this build referenced an aggregate name
    last,       \* what the last operation was and what it returned
    inp,        \* the input of a pure function
    out         \* the result of the last application to inp

procVars == <<disk, cache, reads, edits, recency>>
plugVars == <<build, _modules, scans, aggReads, globbed, dirty, aggRefd>>
pureVars == <<inp, out>>
vars == <<disk, cache, reads, edits, recency, build, _modules, scans,
          aggReads, globbed, dirty, aggRefd, last, inp, out>>

(***************************************************************************)
(* Bounds of the model.                                                    *)
(***************************************************************************)
CacheCap == 2       \* entries the modelled lru_cache holds (10240 in the code)
MaxReads == 2       \* no operation starts once a file was read this often
MaxEdits == 1       \* edits of the tree in one behaviour
MaxBuilds == 2      \* builds (plugin instances) in one behaviour
MaxModules == 2     \* length of a module list given to a view
MaxSegs == 4        \* segments of a source path given to the path predicate

(***************************************************************************)
(* Python values.                                                          *)
(***************************************************************************)
None == [none |-> TRUE]

\* No exception was raised.
NoExc == ""

\* {**a, **b}: the keys of both, b's value where both have the key.
DictMerge(a, b) ==
    [k \in (DOMAIN a) \cup (DOMAIN b) |-> IF k \in DOMAIN b THEN b[k] ELSE a[k]]

\* d.get(k, default)
DictGet(d, k, default) == IF k \in DOMAIN d THEN d[k] ELSE default

Range(s) == {s[i] : i \in 1..Len(s)}

RECURSIVE Concat(_)
\* The concatenation of a sequence of sequences.
Concat(ss) == IF ss = <<>> THEN <<>> ELSE Head(ss) \o Concat(Tail(ss))

(***************************************************************************)
(* Paths and fnmatch.                                                      *)
(***************************************************************************)
SegChars(s) ==
    CASE s = "" -> <<>>
      [] s = "2" -> <<"2">>
      [] s = "3" -> <<"3">>
      [] s = "modules" -> <<"m", "o", "d", "u", "l", "e", "s">>
      [] s = "xmodules" -> <<"x", "m", "o", "d", "u", "l", "e", "s">>
      [] s = "other" -> <<"o", "t", "h", "e", "r">>
      [] s = "configuration" ->
            <<"c", "o", "n", "f", "i", "g", "u", "r", "a", "t", "i", "o", "n">>
      [] s = "sub" -> <<"s", "u", "b">>
      [] s = "foo.yml" -> <<"f", "o", "o", ".", "y", "m", "l">>
      [] s = "foo.md" -> <<"f", "o", "o", ".", "m", "d">>
      [] s = "fooyml" -> <<"f", "o", "o", "y", "m", "l">>
      [] s = ".yml" -> <<".", "y", "m", "l">>
      [] s = "a.yml" -> <<"a", ".", "y", "m", "l">>
      [] s = "b.yml" -> <<"b", ".", "y", "m", "l">>
      [] s = "c.yml" -> <<"c", ".", "y", "m", "l">>
      [] s = "_data.yml" -> <<"_", "d", "a", "t", "a", ".", "y", "m", "l">>

RECURSIVE PathChars(_)
\* The path as fnmatch sees it: its segments joined by "/".
PathChars(path) ==
    IF path = <<>> THEN <<>>
    ELSE IF Len(path) = 1 THEN SegChars(path[1])
    ELSE SegChars(path[1]) \o <<"/">> \o PathChars(Tail(path))

RECURSIVE fnmatch(_, _)
\* fnmatch.fnmatch on a POSIX host (normcase is the identity there): "*"
\* matches any run of characters, "/" included; any other character of
\* these patterns matches itself; the whole name must match.
fnmatch(name, pat) ==
    IF pat = <<>> THEN name = <<>>
    ELSE IF Head(pat) = "*"
         THEN \/ fnmatch(name, Tail(pat))
              \/ (name # <<>> /\ fnmatch(Tail(name), pat))
         ELSE /\ name # <<>>
              /\ Head(name) = Head(pat)
              /\ fnmatch(Tail(name), Tail(pat))

\* "*/modules/*.yml"
ModuleYamlPattern ==
    <<"*", "/", "m", "o", "d", "u", "l", "e", "s", "/", "*", ".", "y", "m", "l">>

is_inspircd_module_yaml(src_path) == fnmatch(PathChars(src_path), ModuleYamlPattern)

(***************************************************************************)
(* The documentation tree.                                                 *)
(***************************************************************************)
ModA == <<"3", "modules", "a.yml">>
ModB == <<"3", "modules", "b.yml">>
OldC == <<"2", "modules", "c.yml">>
CorePath == <<"3", "configuration", "_data.yml">>

Paths == {ModA, ModB, OldC, CorePath}

\* What a file can hold: nothing (no such file), text that is not YAML,
\* or one of two versions of a well-formed document.
Texts == {"missing", "bad", "v1", "v2"}

\* yaml.safe_load of a well-formed file: the core tags, or a module record
\* named after the file, whose entries depend on the version of the text.
ParseYaml(path, text) ==
    IF path = CorePath THEN [tags |-> text]
    ELSE IF text = "v1"
    THEN [name |-> path[3],
          chmodes |-> [chars |-> <<[letter |-> "b"]>>],
          snomasks |-> <<[letter |-> "a"]>>]
    ELSE [name |-> path[3],
          chmodes |-> [chars |-> <<[letter |-> "k"]>>],
          umodes |-> [chars |-> <<[letter |-> "i"]>>],
          configuration |-> <<[name |-> [str |-> "bind"], extends |-> TRUE,
                               added_values |-> <<[name |-> "ssl"]>>]>>]

(***************************************************************************)
(* load_yaml: functools.lru_cache(maxsize) around open + yaml.safe_load.   *)
(***************************************************************************)
InCache(c, path) == \E i \in 1..Len(c) : c[i].path = path

CacheIndex(c, path) == CHOOSE i \in 1..Len(c) : c[i].path = path

RemoveAt(s, i) == SubSeq(s, 1, i - 1) \o SubSeq(s, i + 1, Len(s))

\* A mutant of load_yaml: the decorator is missing, every call reads.
load_yaml_uncached(c, rd, dk, filename) ==
    IF dk[filename] = "missing"
    THEN [cache |-> c, reads |-> rd, value |-> None, exc |-> "FileNotFoundError",
          hit |-> FALSE, evicted |-> <<>>]
    ELSE IF dk[filename] = "bad"
    THEN [cache |-> c, reads |-> [rd EXCEPT ![filename] = @ + 1],
          value |-> None, exc |-> "YAMLError", hit |-> FALSE, evicted |-> <<>>]
    ELSE [cache |-> c, reads |-> [rd EXCEPT ![filename] = @ + 1],
          value |-> ParseYaml(filename, dk[filename]), exc |-> NoExc,
          hit |-> FALSE, evicted |-> <<>>]

\* load_yaml(filename) with the cache c, the read counters rd and the tree
\* dk: the new cache and counters, the value returned, the exception raised
\* (an exception is not cached), whether the call was a cache hit, and the
\* path evicted to make room.
load_yaml(c, rd, dk, filename) ==
    IF InCache(c, filename)
    THEN LET i == CacheIndex(c, filename) IN
         [cache |-> RemoveAt(c, i) \o <<c[i]>>, reads |-> rd,
          value |-> c[i].value, exc |-> NoExc, hit |-> TRUE, evicted |-> <<>>]
    ELSE IF dk[filename] = "missing"
    THEN [cache |-> c, reads |-> rd, value |-> None, exc |-> "FileNotFoundError",
          hit |-> FALSE, evicted |-> <<>>]
    ELSE IF dk[filename] = "bad"
    THEN [cache |-> c, reads |-> [rd EXCEPT ![filename] = @ + 1],
          value |-> None, exc |-> "YAMLError", hit |-> FALSE, evicted |-> <<>>]
    ELSE LET v == ParseYaml(filename, dk[filename])
             full == Len(c) >= CacheCap
             kept == IF full THEN Tail(c) ELSE c
         IN  [cache |-> kept \o <<[path |-> filename, value |-> v]>>,
              reads |-> [rd EXCEPT ![filename] = @ + 1],
              value |-> v, exc |-> NoExc, hit |-> FALSE,
              evicted |-> IF full THEN <<c[1].path>> ELSE <<>>]

RemoveElem(s, x) == SelectSeq(s, LAMBDA y : y # x)

Touch(rec, path) == RemoveElem(rec, path) \o <<path>>

(***************************************************************************)
(* The aggregate views over a module list (a sequence of module records).  *)
(* A view returns [value, exc]: the list built, or the exception raised.   *)
(***************************************************************************)
\* module[key]["chars"] for a mode key, module["snomasks"] itself.
ViewEntries(module, key, nested) == IF nested THEN module[key]["chars"] ELSE module[key]

\* The lookups of the comprehension that raise KeyError: a module that has
\* the key but no "chars" under it, or has entries but no "name".
ViewKeyError(modules, key, nested) ==
    \E i \in 1..Len(modules) :
        /\ key \in DOMAIN modules[i]
        /\ \/ nested /\ "chars" \notin DOMAIN modules[i][key]
           \/ /\ ViewEntries(modules[i], key, nested) # <<>>
              /\ "name" \notin DOMAIN modules[i]

\* A mutant of WithModule: the entry's own "module" field wins.
WithModuleUnder(entry, module) == DictMerge([module |-> module["name"]], entry)

\* {**mode, "module": module["name"]}
WithModule(entry, module) == DictMerge(entry, [module |-> module["name"]])

\* [{**e, "module": m["name"]} for m in modules if key in m for e in entries(m)]
ViewRows(modules, key, nested) ==
    IF ViewKeyError(modules, key, nested)
    THEN [value |-> <<>>, exc |-> "KeyError"]
    ELSE [value |->
            Concat([i \in 1..Len(modules) |->
                IF key \in DOMAIN modules[i]
                THEN LET es == ViewEntries(modules[i], key, nested) IN
                     [j \in 1..Len(es) |-> WithModule(es[j], modules[i])]
                ELSE <<>>]),
          exc |-> NoExc]

chmodes(modules) == ViewRows(modules, "chmodes", TRUE)

umodes(modules) == ViewRows(modules, "umodes", TRUE)

extbans(modules) == ViewRows(modules, "extbans", TRUE)

snomasks(modules) == ViewRows(modules, "snomasks", FALSE)

(***************************************************************************)
(* tag_extensions.  A name is [str |-> s] or [list |-> <<s, ...>>]; the    *)
(* defaultdict built is the sequence of its [key, items] pairs in the      *)
(* order the keys were first appended to.                                  *)
(***************************************************************************)
\* tag_extensions[name].append(record)
DefaultDictAppend(d, name, record) ==
    IF \E i \in 1..Len(d) : d[i].key = name
    THEN LET i == CHOOSE i \in 1..Len(d) : d[i].key = name IN
         [d EXCEPT ![i].items = Append(@, record)]
    ELSE Append(d, [key |-> name, items |-> <<record>>])

\* tag_extensions[name], which is [] for a name never appended to.
DefaultDictGet(d, name) ==
    IF \E i \in 1..Len(d) : d[i].key = name
    THEN d[CHOOSE i \in 1..Len(d) : d[i].key = name].items
    ELSE <<>>

\* A mutant of TagNames: a list of names counts as its first name only.
TagNamesFirstOnly(module_tag) ==
    IF "str" \in DOMAIN module_tag["name"]
    THEN <<module_tag["name"]["str"]>>
    ELSE SubSeq(module_tag["name"]["list"], 1, 1)

\* tag_names: [name] if isinstance(name, str) else name
TagNames(module_tag) ==
    IF "str" \in DOMAIN module_tag["name"]
    THEN <<module_tag["name"]["str"]>>
    ELSE module_tag["name"]["list"]

\* module_tag.get("extends", False), taken as a condition
Extends(module_tag) == DictGet(module_tag, "extends", FALSE) = TRUE

RECURSIVE AppendValues(_, _, _, _)
\* for added_value in module_tag.get("added_values", []): append
AppendValues(d, name, module, values) ==
    IF values = <<>> THEN d
    ELSE AppendValues(
            DefaultDictAppend(d, name,
                DictMerge([module |-> module["name"]], Head(values))),
            name, module, Tail(values))

RECURSIVE AppendNames(_, _, _, _)
\* for name in tag_names
AppendNames(d, names, module, module_tag) ==
    IF names = <<>> THEN d
    ELSE AppendNames(
            AppendValues(d, Head(names), module,
                         DictGet(module_tag, "added_values", <<>>)),
            Tail(names), module, module_tag)

RECURSIVE AppendTags(_, _, _)
\* for module_tag in module.get("configuration", [])
AppendTags(d, module, tags) ==
    IF tags = <<>> THEN d
    ELSE AppendTags(
            IF Extends(Head(tags))
            THEN AppendNames(d, TagNames(Head(tags)), module, Head(tags))
            ELSE d,
            module, Tail(tags))

RECURSIVE AppendModules(_, _)
\* for module in self.modules(config)
AppendModules(d, modules) ==
    IF modules = <<>> THEN d
    ELSE AppendModules(
            AppendTags(d, Head(modules), DictGet(Head(modules), "configuration", <<>>)),
            Tail(modules))

\* The lookups of the loops that raise KeyError: an extending entry with no
\* "name", or a module with no "name" that has a value to append.
TagKeyError(modules) ==
    \E i \in 1..Len(modules) :
        LET tags == DictGet(modules[i], "configuration", <<>>) IN
        \E j \in 1..Len(tags) :
            /\ Extends(tags[j])
            /\ \/ "name" \notin DOMAIN tags[j]
               \/ /\ "name" \notin DOMAIN modules[i]
                  /\ TagNames(tags[j]) # <<>>
                  /\ DictGet(tags[j], "added_values", <<>>) # <<>>

tag_extensions(modules) ==
    IF TagKeyError(modules)
    THEN [value |-> <<>>, exc |-> "KeyError"]
    ELSE [value |-> AppendModules(<<>>, modules), exc |-> NoExc]

(***************************************************************************)
(* LazyContext.resolve.  A bound value is [kind |-> "int", v |-> n], a     *)
(* callable [kind |-> "lambda", ret |-> value] or jinja2's Undefined,      *)
(* [kind |-> "undefined", name |-> key].                                   *)
(***************************************************************************)
Undefined(key) == [kind |-> "undefined", name |-> key]

\* jinja2.runtime.Context.resolve: the binding, or Undefined for a missing name.
ContextResolve(context, key) ==
    IF key \in DOMAIN context THEN context[key] ELSE Undefined(key)

\* hasattr(value, "__call__"): a lambda has it, and so has Undefined, whose
\* __call__ raises UndefinedError.
HasCall(value) == value.kind \in {"lambda", "undefined"}

\* A mutant of LazyShouldCall: the isinstance test is missing.
LazyShouldCallAnyCallable(value) == HasCall(value)

\* hasattr(value, "__call__") and not isinstance(value, jinja2.Undefined)
LazyShouldCall(value) == HasCall(value) /\ value.kind # "undefined"

\* value(): what the call returns, or the exception it raises.
Invoke(value) ==
    IF value.kind = "undefined"
    THEN [value |-> None, exc |-> "UndefinedError"]
    ELSE [value |-> value.ret, exc |-> NoExc]

\* LazyContext.resolve(key): the value substituted, the exception raised and
\* the values that were invoked on the way.
resolve(context, key) ==
    LET value == ContextResolve(context, key) IN
    IF LazyShouldCall(value)
    THEN [value |-> Invoke(value).value, exc |-> Invoke(value).exc,
          invoked |-> <<value>>]
    ELSE [value |-> value, exc |-> NoExc, invoked |-> <<>>]

\* The view a name stands for, applied to a module list.
ApplyView(view, modules) ==
    CASE view = "chmodes" -> chmodes(modules)
      [] view = "umodes" -> umodes(modules)
      [] view = "extbans" -> extbans(modules)
      [] view = "snomasks" -> snomasks(modules)
      [] view = "tag_extensions" -> tag_extensions(modules)

(***************************************************************************)
(* InspircdPlugin.  A handler runs on a record st of the state it reads    *)
(* and writes: the cache and the read counters, the instance's memo (mem)  *)
(* with its scan and read counts, the exception raised so far (exc), the   *)
(* context names whose callables were invoked (executed) and what they     *)
(* returned (results).                                                     *)
(***************************************************************************)
\* os.listdir order of the tree's files; glob.glob keeps it.
DirListing == <<ModA, ModB, OldC, CorePath>>

\* glob.glob(config["docs_dir"] + "/3/modules/*.yml"): the files that exist
\* directly in 3/modules and whose name matches "*.yml".
GlobModules(dk) ==
    SelectSeq(DirListing,
              LAMBDA p : /\ dk[p] # "missing"
                         /\ Len(p) = 3 /\ p[1] = "3" /\ p[2] = "modules"
                         /\ fnmatch(SegChars(p[3]), <<"*", ".", "y", "m", "l">>))

\* The list object self._modules = [] creates in build b by its n-th scan.
NewList(b, n) == [none |-> FALSE, id |-> <<b, n>>, items |-> <<>>]

RECURSIVE LoadModules(_, _, _)
\* for module_file in glob: self._modules.append(load_yaml(module_file));
\* an exception of load_yaml leaves the loop with the list as it is.
LoadModules(st, dk, files) ==
    IF files = <<>> THEN st
    ELSE LET f == Head(files)
             r == load_yaml(st.cache, st.reads, dk, f)
             st1 == [st EXCEPT !.cache = r.cache,
                               !.aggReads[f] = @ + (r.reads[f] - st.reads[f]),
                               !.reads = r.reads]
         IN  IF r.exc # NoExc THEN [st1 EXCEPT !.exc = r.exc]
             ELSE LoadModules([st1 EXCEPT !.mem.items = Append(@, r.value)],
                              dk, Tail(files))

\* The body of modules() under its test.
ScanModules(st, dk, b) ==
    LoadModules([st EXCEPT !.mem = NewList(b, st.scans + 1),
                           !.scans = @ + 1,
                           !.globbed = GlobModules(dk)],
                dk, GlobModules(dk))

\* A mutant of modules: the test of self._modules is missing.
modules_unmemoized(st, dk, b) == ScanModules(st, dk, b)

\* modules(config): scans and loads if self._modules is None; st.mem is
\* the list returned.
modules(st, dk, b) == IF st.mem = None THEN ScanModules(st, dk, b) ELSE st

AggregateNames ==
    {"module_chmodes", "module_umodes", "module_extbans", "module_snomasks",
     "module_tag_extensions"}

\* The keys of the context in the order of the dict literal.
ContextOrder ==
    <<"module_chmodes", "module_umodes", "module_extbans", "module_snomasks",
      "module_tag_extensions", "core_config_tags">>

\* The method a context name's lambda calls.
ViewOf(name) ==
    CASE name = "module_chmodes" -> "chmodes"
      [] name = "module_umodes" -> "umodes"
      [] name = "module_extbans" -> "extbans"
      [] name = "module_snomasks" -> "snomasks"
      [] name = "module_tag_extensions" -> "tag_extensions"

\* A mutant of PageContext: core_config_tags is bound to the loaded file,
\* the load being made when the dict is built.
PageContextStaticCore ==
    [n \in Range(ContextOrder) |->
        IF n = "core_config_tags" THEN [kind |-> "call", body |-> n]
        ELSE [kind |-> "lambda", body |-> n]]

\* The context of on_page_markdown: each name bound to a lambda.  A value
\* of kind "call" would be an expression Python evaluates when it builds the
\* dict; the code has none.
PageContext == [n \in Range(ContextOrder) |-> [kind |-> "lambda", body |-> n]]

\* The body of a context entry: the aggregate view over modules(config), or
\* load_yaml of the core configuration file.
RunBody(st, name, dk, b) ==
    IF name = "core_config_tags"
    THEN LET r == load_yaml(st.cache, st.reads, dk, CorePath) IN
         [st EXCEPT !.cache = r.cache, !.reads = r.reads, !.exc = r.exc,
                    !.executed = Append(@, name),
                    !.results = IF r.exc = NoExc
                                THEN Append(@, [name |-> name, value |-> r.value])
                                ELSE @]
    ELSE LET st1 == modules([st EXCEPT !.executed = Append(@, name)], dk, b) IN
         IF st1.exc # NoExc THEN st1
         ELSE LET r == ApplyView(ViewOf(name), st1.mem.items) IN
              [st1 EXCEPT !.exc = r.exc,
                          !.results = IF r.exc = NoExc
                                      THEN Append(@, [name |-> name, value |-> r.value])
                                      ELSE @]

RECURSIVE BuildContext(_, _, _, _, _)
\* Building the dict: the entries that are calls are made, in order.
BuildContext(st, context, names, dk, b) ==
    IF names = <<>> \/ st.exc # NoExc THEN st
    ELSE BuildContext(
            IF context[Head(names)].kind = "call"
            THEN RunBody(st, Head(names), dk, b) ELSE st,
            context, Tail(names), dk, b)

\* A mutant of NamesResolved: every name of the context is resolved.
NamesResolvedEager(markdown) == ContextOrder \o markdown

\* The names template.render resolves: those the Markdown references, in
\* the order it references them.
NamesResolved(markdown) == markdown

RECURSIVE RenderNames(_, _, _, _, _)
\* template.render(context): each name is resolved by LazyContext.resolve,
\* which invokes the bound callable; an exception ends the render.
RenderNames(st, context, names, dk, b) ==
    IF names = <<>> \/ st.exc # NoExc THEN st
    ELSE LET value == ContextResolve(context, Head(names)) IN
         RenderNames(
            IF LazyShouldCall(value)
            THEN IF value.kind = "undefined"
                 THEN [st EXCEPT !.exc = Invoke(value).exc]
                 ELSE RunBody(st, value.body, dk, b)
            ELSE st,
            context, Tail(names), dk, b)

\* on_page_markdown(markdown, page, config, files) from the state st.
RenderPage(st, markdown, dk, b) ==
    RenderNames(BuildContext(st, PageContext, ContextOrder, dk, b),
                PageContext, NamesResolved(markdown), dk, b)

(***************************************************************************)
(* Specifications.  Each one runs a part of the program and leaves the     *)
(* variables of the other parts at rest.                                   *)
(***************************************************************************)
NoReads == [p \in Paths |-> 0]

NoOp == [op |-> "none"]

ProcAtRest ==
    /\ disk = [p \in Paths |-> "v1"]
    /\ cache = <<>>
    /\ reads = NoReads
    /\ edits = 0
    /\ recency = <<>>

PlugAtRest ==
    /\ build = 1
    /\ _modules = None
    /\ scans = 0
    /\ aggReads = NoReads
    /\ globbed = <<>>
    /\ dirty = {}
    /\ aggRefd = FALSE

SeqsUpTo(S, n) == UNION {[1..k -> S] : k \in 0..n}

(***************************************************************************)
(* SpecMatch: ExtendedFile.is_inspircd_module_yaml on a source path.       *)
(***************************************************************************)
MatchSegs ==
    {"", "3", "modules", "xmodules", "other", "sub", "foo.yml", "foo.md",
     "fooyml", ".yml"}

MatchPaths == SeqsUpTo(MatchSegs, MaxSegs) \ {<<>>}

InitMatch ==
    /\ ProcAtRest /\ PlugAtRest /\ last = NoOp
    /\ inp \in MatchPaths
    /\ out = None

CheckModuleYaml ==
    /\ out = None
    /\ out' = [result |-> is_inspircd_module_yaml(inp)]
    /\ UNCHANGED <<procVars, plugVars, last, inp>>

NextMatch == CheckModuleYaml

SpecMatch == InitMatch /\ [][NextMatch]_vars

(***************************************************************************)
(* SpecResolve: LazyContext.resolve on a context of two names.             *)
(***************************************************************************)
Int7 == [kind |-> "int", v |-> 7]

Int42 == [kind |-> "int", v |-> 42]

Lambda42 == [kind |-> "lambda", ret |-> Int42]

\* A callable that returns a callable.
LambdaLambda == [kind |-> "lambda", ret |-> Lambda42]

\* A callable that returns Undefined.
LambdaUndefined == [kind |-> "lambda", ret |-> Undefined("gone")]

BoundValues == {Int7, Lambda42, LambdaLambda, LambdaUndefined, Undefined("gone")}

ContextKeys == {"a", "b"}

ResolveKeys == {"a", "b", "c"}

Contexts == UNION {[S -> BoundValues] : S \in SUBSET ContextKeys}

InitResolve ==
    /\ ProcAtRest /\ PlugAtRest /\ last = NoOp
    /\ inp \in Contexts
    /\ out = None

Resolve ==
    \E key \in ResolveKeys :
        /\ out' = [key |-> key, r |-> resolve(inp, key)]
        /\ UNCHANGED <<procVars, plugVars, last, inp>>

NextResolve == Resolve

SpecResolve == InitResolve /\ [][NextResolve]_vars

(***************************************************************************)
(* SpecModes: the four mode views on a list of module records.             *)
(***************************************************************************)
Ban == [letter |-> "b", name |-> "ban"]

\* An entry that has a "module" field of its own.
Key == [letter |-> "k", module |-> "zz"]

CharLists == {<<Ban>>, <<Key, Ban>>}

ModeKeys == {"chmodes", "umodes", "extbans", "snomasks"}

ModuleNames == {"m1", "m2"}

\* The module record with this name, these keys and these entries under each.
ModeModule(name, keys, chars) ==
    [k \in {"name"} \cup keys |->
        IF k = "name" THEN name
        ELSE IF k = "snomasks" THEN chars
        ELSE [chars |-> chars]]

\* Records an aggregate view cannot read: one with no "chars" under its
\* keys, one with no "name".
MalformedModules ==
    {[name |-> "m3", chmodes |-> [letters |-> <<Ban>>], umodes |-> [letters |-> <<Ban>>],
      extbans |-> [letters |-> <<Ban>>], snomasks |-> <<>>],
     [chmodes |-> [chars |-> <<Ban>>], snomasks |-> <<Ban>>]}

\* Module "m1" with every choice of keys and entries, module "m2" with every
\* choice of keys, a module whose lists are empty, and the malformed ones.
ModeModules ==
    {ModeModule("m1", ks, cs) : ks \in SUBSET ModeKeys, cs \in CharLists}
    \cup {ModeModule("m2", ks, <<Ban>>) : ks \in SUBSET ModeKeys}
    \cup {ModeModule("m1", ModeKeys, <<>>)}
    \cup MalformedModules

InitModes ==
    /\ ProcAtRest /\ PlugAtRest /\ last = NoOp
    /\ inp \in SeqsUpTo(ModeModules, MaxModules)
    /\ out = None

CallView ==
    \E view \in ModeKeys :
        /\ out = None
        /\ out' = [view |-> view, r |-> ApplyView(view, inp)]
        /\ UNCHANGED <<procVars, plugVars, last, inp>>

NextModes == CallView

SpecModes == InitModes /\ [][NextModes]_vars

(***************************************************************************)
(* SpecTags: tag_extensions on a list of module records.                   *)
(***************************************************************************)
X1 == [x |-> 1]

\* An added value that has a "module" field of its own.
Y2 == [y |-> 2, module |-> "zz"]

TagNameOptions == {[str |-> "foo"], [list |-> <<"foo", "bar">>]}

\* A present field is a one-element sequence, an absent one the empty one.
Optional(field, opt) == IF opt = <<>> THEN <<>> ELSE [f \in {field} |-> opt[1]]

Dict(d) == IF d = <<>> THEN [f \in {} |-> 0] ELSE d

ConfigEntry(name, extends, added) ==
    DictMerge([name |-> name],
              DictMerge(Dict(Optional("extends", extends)),
                        Dict(Optional("added_values", added))))

ConfigEntries ==
    {ConfigEntry(n, e, a) :
        n \in TagNameOptions,
        e \in {<<>>, <<FALSE>>, <<TRUE>>},
        a \in {<<>>, <<(<<X1>>)>>, <<(<<Y2, X1>>)>>}}

\* The entries that extend a tag with at least one value.
LiveEntries ==
    {c \in ConfigEntries : Extends(c) /\ DictGet(c, "added_values", <<>>) # <<>>}

ConfigLists ==
    {<<>>} \cup {<<c>> : c \in ConfigEntries}
           \cup {<<c, d>> : c \in LiveEntries, d \in LiveEntries}

\* Module "m1" with every configuration list, module "m2" with one entry
\* that extends a tag, and both without a configuration.
TagModules ==
    {[name |-> n] : n \in ModuleNames}
    \cup {[name |-> "m1", configuration |-> cs] : cs \in ConfigLists}
    \cup {[name |-> "m2", configuration |-> <<c>>] : c \in LiveEntries}

InitTags ==
    /\ ProcAtRest /\ PlugAtRest /\ last = NoOp
    /\ inp \in SeqsUpTo(TagModules, MaxModules)
    /\ out = None

CallTagExtensions ==
    /\ out = None
    /\ out' = [view |-> "tag_extensions", r |-> ApplyView("tag_extensions", inp)]
    /\ UNCHANGED <<procVars, plugVars, last, inp>>

NextTags == CallTagExtensions

SpecTags == InitTags /\ [][NextTags]_vars

(***************************************************************************)
(* SpecCache: any sequence of load_yaml calls, the tree edited in between. *)
(***************************************************************************)
InitDisks ==
    {d \in [Paths -> {"v1", "bad", "missing"}] :
        d[OldC] = "v1" /\ d[CorePath] # "bad"}

InitCache ==
    /\ disk \in InitDisks
    /\ cache = <<>> /\ reads = NoReads /\ edits = 0 /\ recency = <<>>
    /\ PlugAtRest /\ last = NoOp
    /\ inp = None /\ out = None

CallLoadYaml ==
    \E filename \in Paths :
        /\ reads[filename] < MaxReads
        /\ \E r \in {load_yaml(cache, reads, disk, filename)} :
           /\ cache' = r.cache
           /\ reads' = r.reads
           /\ last' = [op |-> "load_yaml", path |-> filename, value |-> r.value,
                       exc |-> r.exc, hit |-> r.hit, evicted |-> r.evicted]
        /\ recency' = Touch(recency, filename)
        /\ UNCHANGED <<disk, edits, plugVars, pureVars>>

\* The tree is edited from outside: a module file of the current version is
\* written, removed or created.
EditFile ==
    \E path \in {ModA, ModB}, text \in Texts :
        /\ edits < MaxEdits
        /\ text # disk[path]
        /\ disk' = [disk EXCEPT ![path] = text]
        /\ edits' = edits + 1
        /\ dirty' = dirty \cup {path}
        /\ last' = [op |-> "edit", path |-> path]
        /\ UNCHANGED <<cache, reads, recency, build, _modules, scans, aggReads,
                       globbed, aggRefd, pureVars>>

NextCache == CallLoadYaml \/ EditFile

SpecCache == InitCache /\ [][NextCache]_vars

(***************************************************************************)
(* SpecBuild: builds in one process.  Each build has a plugin instance of  *)
(* its own; the host reads the source of pages and renders their Markdown. *)
(* reads and recency are history of SpecCache and stay at rest here.       *)
(***************************************************************************)
\* The Markdown of a page, as the sequence of the names it references.
Pages ==
    {<<>>, <<"nope">>}
    \cup {<<n>> : n \in Range(ContextOrder)}
    \cup {<<"module_tag_extensions", "module_tag_extensions">>,
          <<"module_chmodes", "core_config_tags">>}

\* The pages whose source the host asks for: a module page, and one that
\* is no module page.
PageFiles == {ModA, CorePath}

BuildDisks ==
    {d \in [Paths -> {"v1", "bad", "missing"}] :
        d[ModA] = "v1" /\ d[OldC] = "v1" /\ d[CorePath] # "bad"}

InitBuild ==
    /\ disk \in BuildDisks
    /\ cache = <<>> /\ reads = NoReads /\ edits = 0 /\ recency = <<>>
    /\ PlugAtRest /\ last = NoOp
    /\ inp = None /\ out = None

Handler ==
    [cache |-> cache, reads |-> NoReads, mem |-> _modules, scans |-> scans,
     aggReads |-> aggReads, globbed |-> globbed, exc |-> NoExc,
     executed |-> <<>>, results |-> <<>>]

on_page_markdown ==
    \E markdown \in Pages :
        /\ scans < MaxReads
        /\ \A p \in Paths : aggReads[p] < MaxReads
        /\ \E st \in {RenderPage(Handler, markdown, disk, build)} :
           /\ cache' = st.cache
           /\ _modules' = st.mem
           /\ scans' = st.scans
           /\ aggReads' = st.aggReads
           /\ globbed' = st.globbed
           /\ last' = [op |-> "on_page_markdown", markdown |-> markdown,
                       executed |-> st.executed, results |-> st.results,
                       exc |-> st.exc]
        /\ aggRefd' = (aggRefd \/ Range(markdown) \cap AggregateNames # {})
        /\ UNCHANGED <<disk, reads, edits, recency, build, dirty, pureVars>>

\* on_page_read_source(page, config): a module page's source is its YAML
\* rendered by the module template; any other page is left to the host.
on_page_read_source ==
    \E path \in PageFiles :
        /\ IF is_inspircd_module_yaml(path)
           THEN \E r \in {load_yaml(cache, NoReads, disk, path)} :
                /\ cache' = r.cache
                /\ last' = [op |-> "on_page_read_source", path |-> path,
                            value |-> r.value, exc |-> r.exc]
           ELSE /\ UNCHANGED cache
                /\ last' = [op |-> "on_page_read_source", path |-> path,
                            value |-> None, exc |-> NoExc]
        /\ UNCHANGED <<disk, reads, edits, recency, plugVars, pureVars>>

\* The host starts another build in the same process: InspircdPlugin() is
\* constructed anew; load_yaml's cache belongs to the module and stays.
NewBuild ==
    /\ build < MaxBuilds
    /\ build' = build + 1
    /\ _modules' = None
    /\ scans' = 0
    /\ aggReads' = NoReads
    /\ globbed' = <<>>
    /\ dirty' = {}
    /\ aggRefd' = FALSE
    /\ last' = [op |-> "__init__"]
    /\ UNCHANGED <<procVars, pureVars>>

NextBuild == on_page_markdown \/ on_page_read_source \/ EditFile \/ NewBuild

SpecBuild == InitBuild /\ [][NextBuild]_vars

(***************************************************************************)
(* Claims about the pure functions.                                        *)
(***************************************************************************)
\* Where the claim says a view takes a module's entries from: "chars" under
\* the mode key, and the "snomasks" list itself.
ClaimedEntries(module, view) ==
    IF view \notin DOMAIN module THEN <<>>
    ELSE IF view = "snomasks" THEN module["snomasks"]
    ELSE module[view]["chars"]

\* A module the claim covers: one with a name, and "chars" under its mode keys.
WellFormedModule(module) ==
    /\ "name" \in DOMAIN module
    /\ \A k \in (DOMAIN module) \cap {"chmodes", "umodes", "extbans"} :
            "chars" \in DOMAIN module[k]

RECURSIVE RowsBefore(_, _, _)
\* How many entries the mods before the i-th have under the view's key.
RowsBefore(mods, view, i) ==
    IF i = 1 THEN 0
    ELSE RowsBefore(mods, view, i - 1) + Len(ClaimedEntries(mods[i - 1], view))

\* C1: for every list of well-formed module records, each of chmodes, umodes,
\* extbans and snomasks returns one row per entry of each module's list under
\* the view's key, mods in list order and entries in file order, a module
\* without the key giving no row; a row has the entry's fields and "module",
\* "module" being the owning module's name and every other field the entry's.
C1_ViewIsConcatenation ==
    (out # None /\ \A i \in 1..Len(inp) : WellFormedModule(inp[i])) =>
        LET rows == out.r.value
            view == out.view
        IN  /\ out.r.exc = NoExc
            /\ Len(rows) = RowsBefore(inp, view, Len(inp) + 1)
            /\ \A i \in 1..Len(inp) :
                   LET es == ClaimedEntries(inp[i], view) IN
                   \A j \in 1..Len(es) :
                       LET row == rows[RowsBefore(inp, view, i) + j] IN
                       /\ DOMAIN row = (DOMAIN es[j]) \cup {"module"}
                       /\ row["module"] = inp[i]["name"]
                       /\ \A f \in (DOMAIN es[j]) \ {"module"} : row[f] = es[j][f]

\* C1's case: a view of two mods, the first without the key, the second
\* with two entries, one of which has a "module" field of its own.
C1_Witness ==
    /\ out # None
    /\ Len(inp) = 2
    /\ \A i \in 1..2 : WellFormedModule(inp[i])
    /\ out.view \notin DOMAIN inp[1]
    /\ ClaimedEntries(inp[2], out.view) = <<Key, Ban>>
    /\ Len(out.r.value) = 2

\* The names a configuration entry extends, as the claim reads them.
ClaimedNames(module_tag) ==
    IF "str" \in DOMAIN module_tag["name"]
    THEN {module_tag["name"]["str"]}
    ELSE Range(module_tag["name"]["list"])

\* {module: <module name>, ...added_value fields}
ClaimedRecord(module, added_value) ==
    [f \in {"module"} \cup DOMAIN added_value |->
        IF f \in DOMAIN added_value THEN added_value[f] ELSE module["name"]]

\* The records the claim puts under a tag name: module order, then
\* configuration-entry order, then added_values order.
ClaimedRecords(mods, tag) ==
    Concat([i \in 1..Len(mods) |->
        LET tags == DictGet(mods[i], "configuration", <<>>) IN
        Concat([j \in 1..Len(tags) |->
            IF DictGet(tags[j], "extends", FALSE) = TRUE /\ tag \in ClaimedNames(tags[j])
            THEN LET vs == DictGet(tags[j], "added_values", <<>>) IN
                 [k \in 1..Len(vs) |-> ClaimedRecord(mods[i], vs[k])]
            ELSE <<>>])])

\* A module list with every single name written as a one-element list.
NamesAsLists(mods) ==
    [i \in 1..Len(mods) |->
        IF "configuration" \notin DOMAIN mods[i] THEN mods[i]
        ELSE [mods[i] EXCEPT !["configuration"] =
                [j \in 1..Len(@) |->
                    IF "str" \in DOMAIN @[j]["name"]
                    THEN [@[j] EXCEPT !["name"] = [list |-> <<@["str"]>>]]
                    ELSE @[j]]]]

TagUniverse == {"foo", "bar", "baz"}

\* C3: tag_extensions puts under every tag name one record {module: <module
\* name>, ...added_value fields} per added value of every entry with a truthy
\* extends that names the tag, in module, then entry, then added_values order;
\* entries without a truthy extends give nothing; and a name written as a
\* string aggregates as the same name written as a one-element list.
C3_TagExtensions ==
    out # None =>
        /\ out.r.exc = NoExc
        /\ \A tag \in TagUniverse :
               DefaultDictGet(out.r.value, tag) = ClaimedRecords(inp, tag)
        /\ \A i \in 1..Len(out.r.value) : out.r.value[i].key \in TagUniverse
        /\ out.r.value = tag_extensions(NamesAsLists(inp)).value

\* C3's case: module "m1" extends ["foo", "bar"] with [{x: 1}], and both
\* names got the record {module: "m1", x: 1}.
C3_Witness ==
    /\ out # None
    /\ inp = <<[name |-> "m1",
                configuration |-> <<[name |-> [list |-> <<"foo", "bar">>],
                                     extends |-> TRUE,
                                     added_values |-> <<X1>>]>>]>>
    /\ DefaultDictGet(out.r.value, "foo") = <<[module |-> "m1", x |-> 1]>>
    /\ DefaultDictGet(out.r.value, "bar") = <<[module |-> "m1", x |-> 1]>>

\* C4: resolve(key) invokes a bound callable that is not Undefined exactly
\* once and returns what the call returns; it returns any other bound value
\* unchanged; and it returns Undefined, bound or standing for a missing name,
\* as it is, without invoking it.
C4_Resolve ==
    out # None =>
        LET r == out.r
            bound == out.key \in DOMAIN inp
        IN  /\ r.exc = NoExc
            /\ (bound /\ inp[out.key].kind = "lambda") =>
                   /\ r.value = inp[out.key].ret
                   /\ r.invoked = <<inp[out.key]>>
            /\ (bound /\ inp[out.key].kind = "int") =>
                   /\ r.value = inp[out.key]
                   /\ r.invoked = <<>>
            /\ (bound /\ inp[out.key].kind = "undefined") =>
                   /\ r.value = inp[out.key]
                   /\ r.invoked = <<>>
            /\ ~bound =>
                   /\ r.value = Undefined(out.key)
                   /\ r.invoked = <<>>

\* C4's case: with {"a": lambda: 42, "b": 7}, "a" resolved to 42 by one call.
C4_Witness ==
    /\ out # None
    /\ inp = [a |-> Lambda42, b |-> Int7]
    /\ out.key = "a"
    /\ out.r.value = Int42
    /\ Len(out.r.invoked) = 1

EndsWith(s, suffix) ==
    /\ Len(s) >= Len(suffix)
    /\ SubSeq(s, Len(s) - Len(suffix) + 1, Len(s)) = suffix

\* The shape the claim gives: a directory, then the segment "mods", then
\* a file name ending in ".yml" directly inside it.
ClaimedModulePage(src_path) ==
    /\ Len(src_path) >= 3
    /\ src_path[Len(src_path) - 1] = "mods"
    /\ EndsWith(SegChars(src_path[Len(src_path)]), <<".", "y", "m", "l">>)

C6_NamedPaths ==
    /\ is_inspircd_module_yaml(<<"3", "mods", "foo.yml">>)
    /\ ~is_inspircd_module_yaml(<<"3", "mods", "foo.md">>)
    /\ ~is_inspircd_module_yaml(<<"3", "other", "foo.yml">>)

(***************************************************************************)
(* Claims about the cache and the builds.                                  *)
(***************************************************************************)
CachedPaths(c) == {c[i].path : i \in 1..Len(c)}

\* Of the cached paths, the one whose last load_yaml call is the oldest.
LeastRecentlyUsed(c, rec) ==
    rec[CHOOSE i \in 1..Len(rec) :
            /\ rec[i] \in CachedPaths(c)
            /\ \A j \in 1..(i - 1) : rec[j] \notin CachedPaths(c)]

\* C7: a load_yaml call for a path that is cached returns the cached value
\* and reads no file; a call for a path that is not cached reads the file
\* once and, if the file parses, caches the value; the cache never holds more
\* than its capacity of distinct paths, and a new path loaded into a full
\* cache evicts the least recently accessed entry and no other.
C7_LoadYamlCache ==
    /\ [](/\ Len(cache) <= CacheCap
          /\ Cardinality(CachedPaths(cache)) = Len(cache))
    /\ [][last'.op = "load_yaml" =>
            LET p == last'.path
                parses == disk[p] \notin {"missing", "bad"}
            IN  /\ InCache(cache, p) =>
                       /\ reads' = reads
                       /\ last'.hit /\ last'.exc = NoExc
                       /\ last'.value = cache[CacheIndex(cache, p)].value
                       /\ CachedPaths(cache') = CachedPaths(cache)
                /\ (~InCache(cache, p) /\ parses) =>
                       /\ reads' = [reads EXCEPT ![p] = @ + 1]
                       /\ ~last'.hit /\ last'.exc = NoExc
                       /\ last'.value = ParseYaml(p, disk[p])
                       /\ IF Len(cache) = CacheCap
                          THEN /\ last'.evicted = <<LeastRecentlyUsed(cache, recency)>>
                               /\ CachedPaths(cache') =
                                    (CachedPaths(cache) \ {LeastRecentlyUsed(cache, recency)})
                                    \cup {p}
                          ELSE /\ last'.evicted = <<>>
                               /\ CachedPaths(cache') = CachedPaths(cache) \cup {p}
                /\ (~InCache(cache, p) /\ ~parses) =>
                       /\ last'.exc # NoExc
                       /\ cache' = cache
         ]_vars

\* C7's case: a cache hit on a path read once, the cache full, and a path
\* that was loaded from an unedited tree and is cached no more: evicted.
C7_Witness ==
    /\ last.op = "load_yaml" /\ last.hit
    /\ reads[last.path] = 1
    /\ Len(cache) = CacheCap
    /\ edits = 0
    /\ \E q \in Paths : disk[q] = "v1" /\ reads[q] >= 1 /\ ~InCache(cache, q)

\* The aggregate results of a render.
AggregateResults(l) ==
    {l.results[i] : i \in {j \in 1..Len(l.results) : l.results[j].name \in AggregateNames}}

\* C2: within one build the module directory is scanned at most once and
\* every module file is read by the aggregator at most once; once computed,
\* the module list stays the same object with the same records; and every
\* result an aggregate returns is the view of that list, so two calls of the
\* same view in a build return equal results.
C2_ModulesOncePerBuild ==
    /\ [](/\ scans <= 1
          /\ \A p \in Paths : aggReads[p] <= 1
          /\ last.op = "on_page_markdown" =>
                /\ \A r \in AggregateResults(last) :
                       r.value = ApplyView(ViewOf(r.name), _modules.items).value
                /\ \A r1, r2 \in AggregateResults(last) :
                       r1.name = r2.name => r1.value = r2.value)
    /\ [][build' = build =>
            /\ _modules # None =>
                   /\ _modules' = _modules
                   /\ scans' = scans
                   /\ aggReads' = aggReads
            /\ (last.op = "on_page_markdown" /\ last'.op = "on_page_markdown") =>
                   \A r1 \in AggregateResults(last), r2 \in AggregateResults(last') :
                       r1.name = r2.name => r1.value = r2.value
         ]_vars

\* C2's case: a page called tag_extensions twice, the two results are the
\* same non-empty index, and the directory was scanned once.
C2_Witness ==
    /\ last.op = "on_page_markdown"
    /\ last.markdown = <<"module_tag_extensions", "module_tag_extensions">>
    /\ Len(last.results) = 2
    /\ last.results[1].value # <<>>
    /\ last.results[1].value = last.results[2].value
    /\ scans = 1
    /\ \E p \in Paths : aggReads[p] = 1

\* C5: the render of a page executes an aggregate only if the page's
\* Markdown references its name, and a build none of whose pages references
\* an aggregate name has scanned no directory and read no module file.
C5_AggregatesOnlyWhenReferenced ==
    /\ last.op = "on_page_markdown" =>
           Range(last.executed) \cap AggregateNames \subseteq Range(last.markdown)
    /\ ~aggRefd => (scans = 0 /\ aggReads = NoReads /\ _modules = None)

\* C5's case: a page that references module_chmodes and core_config_tags
\* executed these two and no other, and the directory was scanned for it.
C5_Witness ==
    /\ last.op = "on_page_markdown"
    /\ last.markdown = <<"module_chmodes", "core_config_tags">>
    /\ last.executed = <<"module_chmodes", "core_config_tags">>
    /\ scans = 1

\* The text of every module file of the tree is well-formed YAML.
ModuleFilesParse(dk) ==
    \A i \in 1..Len(GlobModules(dk)) : dk[GlobModules(dk)[i]] \in {"v1", "v2"}

\* The module list a scan of the tree as it is now gives.
ModulesOfTree(dk) ==
    [i \in 1..Len(GlobModules(dk)) |-> ParseYaml(GlobModules(dk)[i], dk[GlobModules(dk)[i]])]

\* C8: the YAML cache and the module list are scoped to one build: what an
\* aggregate returns in a build during which no file was edited is the view
\* of the module files as they are, also when an earlier build of the same
\* process loaded them before they were changed.
C8_BuildSeesCurrentFiles ==
    (last.op = "on_page_markdown" /\ dirty = {} /\ ModuleFilesParse(disk)) =>
        \A r \in AggregateResults(last) :
            r.value = ApplyView(ViewOf(r.name), ModulesOfTree(disk)).value

\* C9 as stated: core_config_tags is a static binding, its file loaded when
\* the context is made, for every page rendered, referenced or not.
C9_CoreTagsLoadedForEveryPage ==
    last.op = "on_page_markdown" => "core_config_tags" \in Range(last.executed)

\* C9 as amended: the context has exactly six names, each bound to a
\* deferred computation, core_config_tags too; its file is loaded through
\* load_yaml during a render only if the page references the name, and is
\* loaded whenever a page that references it renders without an exception.
C9_CoreTagsDeferred ==
    /\ DOMAIN PageContext = AggregateNames \cup {"core_config_tags"}
    /\ \A n \in DOMAIN PageContext : PageContext[n].kind = "lambda"
    /\ last.op = "on_page_markdown" =>
           /\ "core_config_tags" \in Range(last.executed) =>
                  "core_config_tags" \in Range(last.markdown)
           /\ ("core_config_tags" \in Range(last.markdown) /\ last.exc = NoExc) =>
                  \E i \in 1..Len(last.results) :
                      /\ last.results[i].name = "core_config_tags"
                      /\ last.results[i].value = ParseYaml(CorePath, disk[CorePath])

\* C9's case: a page that references core_config_tags got the parsed file.
C9_Witness ==
    /\ last.op = "on_page_markdown"
    /\ last.markdown = <<"core_config_tags">>
    /\ last.executed = <<"core_config_tags">>
    /\ Len(last.results) = 1
    /\ last.results[1].value = [tags |-> "v1"]

\* C10: the memoized module list is either not computed or holds one record
\* for every module file the directory scan matched.
C10_MemoCompleteOrUncomputed ==
    _modules = None \/ Len(_modules.items) = Len(globbed)

====
